---------------------------- MODULE Spec2Model ----------------------------
(***************************************************************************)
(* Simple Software Raid (ssr): a RAID1 block device over two physical      *)
(* disks with one CRC32 per data sector (src/ssr.c, src/ssr.h).            *)
(*                                                                         *)
(* Units.  One data sector (KERNEL_SECTOR_SIZE bytes) is one abstract      *)
(* value of Byte; bv_offset, bv_len and every page offset are counted in   *)
(* sectors.  A page is a function 0..PAGE_SECTORS-1 -> sector contents.  A  *)
(* CRC sector is a function 0..CRC_PER_SECTOR-1 -> CrcVal (its u32 slots). *)
(* The layout constants are scaled down (194560 data sectors -> 4, 128     *)
(* slots per CRC sector -> 2); the arithmetic on them is the source's.     *)
(***************************************************************************)
EXTENDS Integers, Sequences, FiniteSets, TLC

\* ---- program constants (scaled) -----------------------------------------
LOGICAL_DISK_SECTORS == 4
CRC_PER_SECTOR == 2
CRC_SEED == 0
NUM_DISKS == 2
CRC_READ_SECTORS == 2
MAX_ACTIVE == 1

PAGE_SECTORS == 2

\* ---- bounds of the model --------------------------------------------------
MaxByte == 1
MaxEvents == 3
MaxSegs == 2

\* ---- layout (ssr.h) -------------------------------------------------------
LOGICAL_DISK_CRC_SECTORS == LOGICAL_DISK_SECTORS \div CRC_PER_SECTOR
LAYOUT_SECTORS == LOGICAL_DISK_SECTORS + LOGICAL_DISK_CRC_SECTORS
\* The physical disks are larger than the layout: one sector past it is
\* modelled, which the engine reads (second CRC sector of the last CRC
\* sector) but never interprets for a request inside the logical range.
DEV_SECTORS == LAYOUT_SECTORS + 1

get_crc_sector(ith_sect) == LOGICAL_DISK_SECTORS + (ith_sect \div CRC_PER_SECTOR)
get_crc_index(ith_sect) == ith_sect % CRC_PER_SECTOR

Dev == 0..(NUM_DISKS - 1)
Sectors == 0..(LOGICAL_DISK_SECTORS - 1)
Byte == 0..MaxByte
CrcVal == 0..(2 * MaxByte)
Pages == [0..(PAGE_SECTORS - 1) -> Byte]

\* crc32(seed, one sector): linear like the kernel's crc32_le (a zero sector
\* with seed 0 has CRC 0), injective on Byte, and not the identity.  The odd
\* values of CrcVal are the CRC of no sector.
crc32(seed, b) == (seed + 2 * b) % (2 * MaxByte + 1)

ZeroCrcSector == [k \in 0..(CRC_PER_SECTOR - 1) |-> 0]
\* Images the two disks may hold when the module is loaded (nothing formats
\* them): zero-filled, or a zero CRC region under data that was never
\* written through the engine (sector s holding s modulo the byte range).
ZeroedDevice ==
    [s \in 0..(DEV_SECTORS - 1) |->
        IF s < LOGICAL_DISK_SECTORS THEN 0 ELSE ZeroCrcSector]
ForeignDevice ==
    [s \in 0..(DEV_SECTORS - 1) |->
        IF s < LOGICAL_DISK_SECTORS THEN s % (MaxByte + 1) ELSE ZeroCrcSector]

\* Content of sector s of a device; past the modelled device: zeros.
SectorAt(dev, s) == IF s \in DOMAIN dev THEN dev[s] ELSE ZeroCrcSector

\* The u32 at index idx of a page holding CRC sectors.
Slot(crc_page, idx) == crc_page[idx \div CRC_PER_SECTOR][idx % CRC_PER_SECTOR]

\* Stored CRC slot of logical sector L on device image dev.
StoredCrc(dev, L) == dev[get_crc_sector(L)][get_crc_index(L)]

\* ---- I/O context ----------------------------------------------------------
\* m.dsk   : the two device images
\* m.fail  : devices whose requests fail during this step (submit_bio_wait
\*           returns an error; the transfer does not happen)
\* m.nwr   : write bios issued so far
\* m.iofail: some bio failed
\* m.oob   : a store outside the static array crcs[] happened
\* m.rd    : << d, s >> for every sector s a read bio to disk d covered
\* m.wr    : << d, s >> for every sector s a write bio to disk d covered
\* m.npages: pages obtained from alloc_page and not yet freed
IoCtx(dsk, fail) ==
    [dsk |-> dsk, fail |-> fail, nwr |-> 0, iofail |-> FALSE, oob |-> FALSE,
     rd |-> {}, wr |-> {}, npages |-> 0]

\* Sectors of disk d a bio of len sectors at sector covers.
Covered(d, sector, len) == {<< d, s >> : s \in sector..(sector + len - 1)}

\* alloc_page(GFP_NOIO) and __free_page.
alloc_page(m) == [m EXCEPT !.npages = @ + 1]
free_page(m) == [m EXCEPT !.npages = @ - 1]

\* ssr.c:63 read_page_from_disk.  Result: [page, m].
read_page_from_disk(page, len, offset, d, sector, m) ==
    IF d \in m.fail
    THEN [page |-> page,
          m |-> [m EXCEPT !.iofail = TRUE, !.rd = @ \cup Covered(d, sector, len)]]
    ELSE [page |-> [j \in DOMAIN page |->
                      IF j >= offset /\ j < offset + len
                      THEN SectorAt(m.dsk[d], sector + (j - offset))
                      ELSE page[j]],
          m |-> [m EXCEPT !.rd = @ \cup Covered(d, sector, len)]]

\* ssr.c:112 write_page_to_disk.  Result: m.
write_page_to_disk(page, len, offset, d, sector, m) ==
    IF d \in m.fail
    THEN [m EXCEPT !.iofail = TRUE, !.nwr = @ + 1,
                   !.wr = @ \cup Covered(d, sector, len)]
    ELSE [m EXCEPT !.nwr = @ + 1,
                   !.wr = @ \cup Covered(d, sector, len),
                   !.dsk[d] = [s \in DOMAIN @ |->
                                 IF s >= sector /\ s < sector + len
                                 THEN page[offset + (s - sector)]
                                 ELSE @[s]]]

\* ssr.c:83 read_payload_from_disk: one sector through a transient page,
\* copied out whether or not the read succeeded (junk is what the freshly
\* allocated page held).  Result: [payload, m].
read_payload_from_disk(sector, d, junk, m) ==
    LET r == read_page_from_disk([j \in 0..0 |-> junk], 1, 0, d, sector,
                                 alloc_page(m))
    IN  [payload |-> r.page[0], m |-> free_page(r.m)]

\* ssr.c:132 write_payload_to_disk: one sector from payload.
write_payload_to_disk(payload, sector, d, m) ==
    free_page(write_page_to_disk([j \in 0..0 |-> payload], 1, 0, d, sector,
                                 alloc_page(m)))

\* ---- write path -----------------------------------------------------------
\* ssr.c:409-413: crcs[crc_start_index + i] = crc32(0, data + i * SECTOR).
\* data is the start of the mapped page (bv_offset is not added).  A store
\* at an index past the array does not land in crcs[]: it is recorded in oob.
\* (mutant) the CRCs are stored from the start of crcs[], not from the
\* position of the segment's first sector.
RECURSIVE recompute_crcs_from_zero(_, _, _, _, _)
recompute_crcs_from_zero(i, data_len, crc_start_index, page, acc) ==
    IF i >= data_len THEN acc
    ELSE recompute_crcs_from_zero(i + 1, data_len, crc_start_index, page,
            [acc EXCEPT !.crcs[i % CRC_PER_SECTOR] = crc32(0, page[i])])

RECURSIVE recompute_crcs(_, _, _, _, _)
recompute_crcs(i, data_len, crc_start_index, page, acc) ==
    IF i >= data_len THEN acc
    ELSE LET idx == crc_start_index + i
             nxt == IF idx < CRC_PER_SECTOR
                    THEN [acc EXCEPT !.crcs[idx] = crc32(0, page[i])]
                    ELSE [acc EXCEPT !.oob = TRUE]
         IN  recompute_crcs(i + 1, data_len, crc_start_index, page, nxt)

\* ssr.c:385-422: the body of my_write_handler's loop for one segment.
write_segment(sector, page, bv_offset, data_len, junk, m) ==
    LET crc_sector == LOGICAL_DISK_SECTORS + sector \div CRC_PER_SECTOR
        crc_start_index == sector % CRC_PER_SECTOR
        m1 == write_page_to_disk(page, data_len, bv_offset, 0, sector, m)
        m2 == write_page_to_disk(page, data_len, bv_offset, 1, sector, m1)
        r  == read_payload_from_disk(crc_sector, 0, junk.crc, m2)
        c  == recompute_crcs(0, data_len, crc_start_index, page,
                             [crcs |-> r.payload, oob |-> FALSE])
        m3 == write_payload_to_disk(c.crcs, crc_sector, 0, r.m)
        m4 == write_payload_to_disk(c.crcs, crc_sector, 1, m3)
    IN  [m4 EXCEPT !.oob = @ \/ c.oob]

\* ---- read path ------------------------------------------------------------
NULL == << >>

\* ssr.c:166 write_to_repair_sector (crc_page_offset is not used: the CRC
\* bio always starts at offset 0 of crc_page_good).
write_to_repair_sector(data_page_good, data_page_offset, crc_page_good, crc_page_offset, d, sector, m) ==
    LET crc_sector == get_crc_sector(sector)
        m1 == write_page_to_disk(data_page_good, 1, data_page_offset, d, sector, m)
    IN  write_page_to_disk(crc_page_good, 1, 0, d, crc_sector, m1)

\* ssr.c:210-244, the loop of check_and_repair_data from index i on.
\* Result: [is_good, m].
RECURSIVE check_loop(_, _, _, _, _, _, _, _, _, _)
check_loop(i, pg_to_use, data_len, data_offset, crc_page, crc_index_f, good_data_page, sector, d, m) ==
    IF i >= data_len THEN [is_good |-> TRUE, m |-> m]
    ELSE
      LET crc_index_local == (crc_index_f + i) % CRC_PER_SECTOR
          crc_page_offset == IF crc_index_f <= crc_index_local THEN 0 ELSE 1
          crc_comp == crc32(CRC_SEED, pg_to_use[data_offset + i])
          crc_stored == Slot(crc_page, crc_index_f + i)
      IN  IF crc_comp /= crc_stored
          THEN IF DOMAIN good_data_page /= {}
               THEN \* crc_page[crc_index_f + i] = crc_stored: no change
                    check_loop(i + 1, pg_to_use, data_len, data_offset, crc_page,
                        crc_index_f, good_data_page, sector, d,
                        write_to_repair_sector(good_data_page, i, crc_page,
                                               crc_page_offset, d, sector + i, m))
               ELSE [is_good |-> FALSE, m |-> m]
          ELSE check_loop(i + 1, pg_to_use, data_len, data_offset, crc_page,
                          crc_index_f, good_data_page, sector, d, m)

\* ssr.c:192 check_and_repair_data.
check_and_repair_data(pg_to_use, data_len, data_offset, crc_page, crc_index_f, good_data_page, sector, d, m) ==
    check_loop(0, pg_to_use, data_len, data_offset, crc_page, crc_index_f,
               good_data_page, sector, d, m)

\* Freshly allocated pages hold junk until a read fills them.
FreshCrcPage(junk) == [j \in 0..(CRC_READ_SECTORS - 1) |-> junk.crc]
FreshDataPage(junk) == [j \in 0..(PAGE_SECTORS - 1) |-> junk.data]

\* ssr.c:284-316, first loop of read_and_check_disks from disk i on.
\* st: [user, local, found, bad, crc_page, m]
RECURSIVE check_disks(_, _, _, _, _, _, _)
check_disks(i, st, data_len, data_offset, sector, crc_sector_f, junk) ==
    IF i >= NUM_DISKS THEN st
    ELSE
      LET crc_index_f == get_crc_index(sector)
          pg_to_use == IF st.found THEN st.local ELSE st.user
          r1 == read_page_from_disk(pg_to_use, data_len, data_offset, i, sector, st.m)
          r2 == read_page_from_disk(st.crc_page, CRC_READ_SECTORS, 0, i,
                                    crc_sector_f, r1.m)
          nxt ==
            IF ~st.found
            THEN LET c == check_and_repair_data(r1.page, data_len, data_offset,
                              r2.page, crc_index_f, NULL, 0, i, r2.m)
                 IN  IF c.is_good
                     THEN [st EXCEPT !.user = r1.page, !.crc_page = r2.page,
                                     !.found = TRUE, !.good_disk_index = i,
                                     !.local = FreshDataPage(junk),
                                     !.m = alloc_page(c.m)]
                     ELSE [st EXCEPT !.user = r1.page, !.crc_page = r2.page,
                                     !.bad = @ \cup {i}, !.m = c.m]
            ELSE LET c == check_and_repair_data(r1.page, data_len, data_offset,
                              r2.page, crc_index_f, st.user, sector, i, r2.m)
                 IN  [st EXCEPT !.local = r1.page, !.crc_page = r2.page, !.m = c.m]
      IN  check_disks(i + 1, nxt, data_len, data_offset, sector, crc_sector_f, junk)

\* ssr.c:327-336, second loop: the disks marked bad are repaired.
RECURSIVE repair_bad_disks(_, _, _, _, _, _)
repair_bad_disks(i, st, data_len, data_offset, sector, crc_sector_f) ==
    IF i >= NUM_DISKS THEN st
    ELSE IF i \notin st.bad
    THEN repair_bad_disks(i + 1, st, data_len, data_offset, sector, crc_sector_f)
    ELSE
      LET r1 == read_page_from_disk(st.local, data_len, data_offset, i, sector, st.m)
          r2 == read_page_from_disk(st.crc_page, CRC_READ_SECTORS, 0, i,
                                    crc_sector_f, r1.m)
          c  == check_and_repair_data(r1.page, data_len, data_offset, r2.page,
                        get_crc_index(sector), st.user, sector, i, r2.m)
      IN  repair_bad_disks(i + 1,
              [st EXCEPT !.local = r1.page, !.crc_page = r2.page, !.m = c.m],
              data_len, data_offset, sector, crc_sector_f)

\* ssr.c:338-340, label out: local_page is freed when it was allocated
\* (crc_page is not).
read_and_check_disks_out(st) ==
    IF DOMAIN st.local /= {} THEN free_page(st.m) ELSE st.m

\* ssr.c:252 read_and_check_disks.  Result: [ret, user, m]; ret 0 or "EIO".
read_and_check_disks(user_page, data_len, data_offset, sector, junk, m) ==
    LET crc_sector_f == get_crc_sector(sector)
        st0 == [user |-> user_page, local |-> NULL, found |-> FALSE,
                good_disk_index |-> -1, bad |-> {},
                crc_page |-> FreshCrcPage(junk), m |-> alloc_page(m)]
        st1 == check_disks(0, st0, data_len, data_offset, sector, crc_sector_f, junk)
    IN  IF ~st1.found
        THEN [ret |-> "EIO", user |-> st1.user, m |-> read_and_check_disks_out(st1)]
        ELSE LET st2 == repair_bad_disks(0, st1, data_len, data_offset, sector,
                                         crc_sector_f)
             IN  [ret |-> "OK", user |-> st2.user, m |-> read_and_check_disks_out(st2)]

\* ---- handlers' completion --------------------------------------------------
\* The completion events a handler delivers for its bio, in order.
\* (mutant) bio_io_error without the else: bio_endio follows it.
my_read_handler_end_no_else(both_disks_corrupted) ==
    IF both_disks_corrupted THEN << "EIO", "OK" >> ELSE << "OK" >>

\* ssr.c:368-371 my_read_handler: bio_io_error or bio_endio.
my_read_handler_end(both_disks_corrupted) ==
    IF both_disks_corrupted THEN << "EIO" >> ELSE << "OK" >>

\* ssr.c:424 my_write_handler: bio_endio.
my_write_handler_end == << "OK" >>

\* ssr.c:447-449 my_submit_bio, error_exit: bio_endio(bio) with bi_status
\* never set, which completes the bio with BLK_STS_OK.
my_submit_bio_error_exit == << "OK" >>

\* ---- state ----------------------------------------------------------------
VARIABLES
    disk,      \* disk[d]: image of physical disk d (data region, CRC region)
    queue,     \* work items queued on the workqueue, oldest first
    active,    \* work items whose handler is running
    done,      \* completion events delivered, oldest first
    nextId,    \* number of the next bio submitted
    ncorrupt,  \* bit-rot events so far
    nextra,    \* segments handled beyond the first of their bio
    shadow,    \* shadow[L]: payload of the last write of L, or NoData
    rot,       \* rot[L]: <<d, kind>> flipped on the disks since that write
    oob,       \* a store outside crcs[] has happened
    seg,       \* what the segment handled last was given and did (observer)
    mod        \* the module: position in ssr_init / ssr_exit, what exists

vars == << disk, queue, active, done, nextId, ncorrupt, nextra, shadow, rot, oob,
           seg, mod >>

\* The variables the handlers' actions below do not mention; each
\* specification says what its steps do to them.
obs == << seg, mod >>

\* A value outside Byte: sector never written through the engine.
NoData == MaxByte + 1
Dirs == {"read", "write"}
NoJunk == [crc |-> ZeroCrcSector, data |-> 0]

\* Bios submitted, further segments and bit-rot events so far: the size of
\* a run, bounded by MaxEvents.
Events == (nextId - 1) + nextra + ncorrupt

\* No segment observed; npages pages are still allocated.
NoSeg(npages) == [dir |-> "none", npages |-> npages]

\* ssr.c:534-559: ssr_init returned 0.  The major is registered, the gendisk
\* added, both disks open, the workqueue created.
Loaded ==
    [pc |-> "loaded", registered |-> TRUE, gd |-> TRUE,
     pdsks |-> [d \in Dev |-> "open"], wq |-> TRUE,
     early |-> FALSE, late |-> FALSE]

\* ssr.c:28-42: the statics before ssr_init runs (zero-initialised).
NotLoaded ==
    [pc |-> "unloaded", registered |-> FALSE, gd |-> FALSE,
     pdsks |-> [d \in Dev |-> "null"], wq |-> FALSE,
     early |-> FALSE, late |-> FALSE]

\* The engine with nothing submitted yet, whatever the module's state.
Fresh ==
    /\ seg = NoSeg(0)
    /\ disk \in {[d \in Dev |-> ZeroedDevice], [d \in Dev |-> ForeignDevice]}
    /\ queue = << >>
    /\ active = {}
    /\ done = << >>
    /\ nextId = 1
    /\ ncorrupt = 0
    /\ nextra = 0
    /\ shadow = [L \in Sectors |-> NoData]
    /\ rot = [L \in Sectors |-> {}]
    /\ oob = FALSE

Init == mod = Loaded /\ Fresh

\* ---- dispatcher -----------------------------------------------------------
\* ssr.c:428 my_submit_bio.  kmalloc(GFP_ATOMIC) succeeds or not; the work
\* item holds the handler and a pointer to the bio.
my_submit_bio(dir, alloc_ok) ==
    /\ Events < MaxEvents
    /\ nextId' = nextId + 1
    /\ IF alloc_ok
       THEN /\ queue' = Append(queue, [id |-> nextId, dir |-> dir])
            /\ done' = done
       ELSE /\ queue' = queue
            /\ done' = done \o [k \in 1..Len(my_submit_bio_error_exit) |->
                                  [id |-> nextId, by |-> "submit", dir |-> dir,
                                   iofail |-> FALSE,
                                   status |-> my_submit_bio_error_exit[k]]]
    /\ UNCHANGED << disk, active, ncorrupt, nextra, shadow, rot, oob >>

Submit == \E dir \in Dirs, alloc_ok \in BOOLEAN : my_submit_bio(dir, alloc_ok)

\* ---- worker ---------------------------------------------------------------
\* ssr.c:554 create_singlethread_workqueue: an ordered workqueue, which runs
\* the oldest queued item and at most MAX_ACTIVE items at a time.
CanRun == Cardinality(active) < MAX_ACTIVE

\* (mutant) the newest queued item runs first.
NextWork_newest == queue[Len(queue)]

NextWork == Head(queue)

\* The worker starts the handler of a work item.  The bio's fields are drawn
\* as the handler reads them: here its first sector (bi_iter.bi_sector).
\* pre is the image of the disks when the handler starts.
StartWorkAt(starts) ==
    /\ queue /= << >>
    /\ CanRun
    /\ \E sector \in starts :
         active' = active \cup
            {[id |-> NextWork.id, dir |-> NextWork.dir, start |-> sector,
              sector |-> sector, k |-> 0, fin |-> FALSE, err |-> FALSE,
              nwr |-> 0, segwr |-> 0, iofail |-> FALSE, pre |-> disk,
              ret |-> << >>]}
    /\ queue' = SelectSeq(queue, LAMBDA w : w.id /= NextWork.id)
    /\ UNCHANGED << disk, done, nextId, ncorrupt, nextra, shadow, rot, oob >>

StartWork == StartWorkAt(Sectors)

\* Segments a bio may hold at sector: (bv_offset, bv_len) inside one page and
\* inside the logical disk.
SegShapes(sector) ==
    {sh \in (0..(PAGE_SECTORS - 1)) \X (1..PAGE_SECTORS) :
        /\ sh[1] + sh[2] <= PAGE_SECTORS
        /\ sector + sh[2] <= LOGICAL_DISK_SECTORS}

\* Whether the segment being handled is the bio's last one.
LastChoices(c, len) ==
    IF \/ c.k + 1 >= MaxSegs
       \/ c.sector + len >= LOGICAL_DISK_SECTORS
       \/ Events >= MaxEvents
    THEN {TRUE} ELSE BOOLEAN

\* ssr.c:357-366: one turn of my_read_handler's bio_for_each_segment.
ReadSegment(c, page, off, len, last, fail, junk) ==
    \E r \in {read_and_check_disks(page, len, off, c.sector, junk,
                                  IoCtx(disk, fail))} :
    LET rng == c.start..(c.sector + len - 1)
        c2 == [c EXCEPT !.sector = @ + len, !.k = @ + 1,
                        !.err = (r.ret /= "OK"),
                        !.fin = last \/ (r.ret /= "OK"),
                        !.nwr = @ + r.m.nwr, !.segwr = r.m.nwr,
                        !.iofail = @ \/ r.m.iofail,
                        !.ret = [L \in rng |->
                                   IF L < c.sector THEN c.ret[L]
                                   ELSE r.user[off + (L - c.sector)]]]
    IN  /\ disk' = r.m.dsk
        /\ active' = (active \ {c}) \cup {c2}
        /\ nextra' = IF c2.fin THEN nextra ELSE nextra + 1
        /\ UNCHANGED << shadow, rot, oob >>

\* ssr.c:385-422: one turn of my_write_handler's bio_for_each_segment.
WriteSegment(c, page, off, len, last, fail, junk) ==
    \E m \in {write_segment(c.sector, page, off, len, junk, IoCtx(disk, fail))} :
    LET rng == c.sector..(c.sector + len - 1)
        c2 == [c EXCEPT !.sector = @ + len, !.k = @ + 1, !.fin = last,
                        !.nwr = @ + m.nwr, !.segwr = m.nwr,
                        !.iofail = @ \/ m.iofail]
    IN  /\ disk' = m.dsk
        /\ active' = (active \ {c}) \cup {c2}
        /\ nextra' = IF c2.fin THEN nextra ELSE nextra + 1
        /\ shadow' = [L \in Sectors |->
                        IF L \in rng THEN page[off + (L - c.sector)] ELSE shadow[L]]
        /\ rot' = [L \in Sectors |-> IF L \in rng THEN {} ELSE rot[L]]
        /\ oob' = (oob \/ m.oob)

\* One segment of a running bio is handled; the segment (page, offset,
\* length, whether more follow) is drawn from pages and shapes, and what the
\* disks and the page allocator do meanwhile from faults.
Segment(pages, shapes, faults) ==
    \E c \in active :
      /\ ~c.fin
      /\ \E page \in pages, sh \in SegShapes(c.sector) \cap shapes :
         \E last \in LastChoices(c, sh[2]), f \in faults :
            /\ IF c.dir = "read"
               THEN ReadSegment(c, page, sh[1], sh[2], last, f.fail, f.junk)
               ELSE WriteSegment(c, page, sh[1], sh[2], last, f.fail, f.junk)
            /\ UNCHANGED << queue, done, nextId, ncorrupt >>

AllShapes == (0..(PAGE_SECTORS - 1)) \X (1..PAGE_SECTORS)

\* No disk fails; the content of fresh pages is then never read.
NoFault == {[fail |-> {}, junk |-> NoJunk]}

HandleSegment == Segment(Pages, AllShapes, NoFault)

\* ssr.c:368-373 and 424-425: the handler completes the bio and frees the
\* work item.
Complete ==
    \E c \in active :
      /\ c.fin
      /\ LET ev == IF c.dir = "read" THEN my_read_handler_end(c.err)
                   ELSE my_write_handler_end
         IN  done' = done \o [k \in 1..Len(ev) |->
                                [id |-> c.id, by |-> "worker", dir |-> c.dir,
                                 iofail |-> c.iofail, status |-> ev[k]]]
      /\ active' = active \ {c}
      /\ UNCHANGED << disk, queue, nextId, ncorrupt, nextra, shadow, rot, oob >>

\* ---- environment: bit-rot ---------------------------------------------------
\* A stored data sector or CRC slot of one disk changes while no handler runs.
FlipData ==
    \E d \in Dev, L \in Sectors, v \in Byte :
      /\ v /= disk[d][L]
      /\ disk' = [disk EXCEPT ![d][L] = v]
      /\ rot' = [rot EXCEPT ![L] = @ \cup {<< d, "data" >>}]

FlipCrc ==
    \E d \in Dev, L \in Sectors, v \in CrcVal :
      /\ v /= StoredCrc(disk[d], L)
      /\ disk' = [disk EXCEPT ![d][get_crc_sector(L)][get_crc_index(L)] = v]
      /\ rot' = [rot EXCEPT ![L] = @ \cup {<< d, "crc" >>}]

Corrupt ==
    /\ active = {}
    /\ Events < MaxEvents
    /\ ncorrupt' = ncorrupt + 1
    /\ (FlipData \/ FlipCrc)
    /\ UNCHANGED << queue, active, done, nextId, nextra, shadow, oob >>

Next ==
    \/ Submit /\ UNCHANGED obs
    \/ StartWork /\ UNCHANGED obs
    \/ HandleSegment /\ UNCHANGED obs
    \/ Complete /\ UNCHANGED obs
    \/ Corrupt /\ UNCHANGED obs

Spec == Init /\ [][Next]_vars

\* ---- the dispatcher on its own -------------------------------------------
\* Concurrent submitters and the worker, without bit-rot; every bio reads or
\* writes single sectors of the first CRC sector's range from offset 0.
FirstSectors == {L \in Sectors : L < CRC_PER_SECTOR}
OneSector == {sh \in AllShapes : sh[1] = 0 /\ sh[2] = 1}

StartWorkD == StartWorkAt(FirstSectors)
HandleSegmentD == Segment(Pages, OneSector, NoFault)

NextD ==
    \/ Submit /\ UNCHANGED obs
    \/ StartWorkD /\ UNCHANGED obs
    \/ HandleSegmentD /\ UNCHANGED obs
    \/ Complete /\ UNCHANGED obs

SpecDispatch == Init /\ [][NextD]_vars

\* ---- failing disks --------------------------------------------------------
\* While a segment is handled the bios sent to the disks of fail return an
\* error, which read_page_from_disk and write_page_to_disk drop; pages the
\* handler allocated hold junk until a read fills them.
\* One-sector segments consult or keep one slot of a junk CRC sector beside
\* the slot they compute, so junk sectors of one repeated value cover it.
Junks == {[crc |-> [k \in 0..(CRC_PER_SECTOR - 1) |-> v], data |-> b] :
            v \in CrcVal, b \in Byte}
Faults == NoFault \cup
          {[fail |-> f, junk |-> j] : f \in (SUBSET Dev) \ {{}}, j \in Junks}

HandleSegmentF == Segment(Pages, OneSector, Faults)

\* Every bio starts at the first sector.
StartWorkF == StartWorkAt({L \in Sectors : L = 0})

NextF ==
    \/ Submit /\ UNCHANGED obs
    \/ StartWorkF /\ UNCHANGED obs
    \/ HandleSegmentF /\ UNCHANGED obs
    \/ Complete /\ UNCHANGED obs

SpecFault == Init /\ [][NextF]_vars

\* ---- one bio at a time, every segment observed ------------------------------
\* The observer records what read_and_check_disks is given and does for the
\* segment (page, off, len) at c.sector.
ObserveRead(c, page, off, len, f) ==
    \E r \in {read_and_check_disks(page, len, off, c.sector, f.junk,
                                  IoCtx(disk, f.fail))} :
      seg' =
        [dir |-> "read", sector |-> c.sector, off |-> off, len |-> len,
         page |-> page, pre |-> disk, user |-> r.user, ret |-> r.ret,
         rd |-> r.m.rd, wr |-> r.m.wr, oob |-> r.m.oob,
         npages |-> seg.npages + r.m.npages]

\* The observer records what my_write_handler's loop body is given and does.
ObserveWrite(c, page, off, len, f) ==
    \E m \in {write_segment(c.sector, page, off, len, f.junk, IoCtx(disk, f.fail))} :
      seg' =
        [dir |-> "write", sector |-> c.sector, off |-> off, len |-> len,
         page |-> page, pre |-> disk, user |-> page, ret |-> "OK",
         rd |-> m.rd, wr |-> m.wr, oob |-> m.oob,
         npages |-> seg.npages + m.npages]

\* Segment, with the observer recording the segment.
SegmentObs(pages, shapes, faults) ==
    \E c \in active :
      /\ ~c.fin
      /\ \E page \in pages, sh \in SegShapes(c.sector) \cap shapes :
         \E last \in LastChoices(c, sh[2]), f \in faults :
            /\ IF c.dir = "read"
               THEN /\ ReadSegment(c, page, sh[1], sh[2], last, f.fail, f.junk)
                    /\ ObserveRead(c, page, sh[1], sh[2], f)
               ELSE /\ WriteSegment(c, page, sh[1], sh[2], last, f.fail, f.junk)
                    /\ ObserveWrite(c, page, sh[1], sh[2], f)
            /\ UNCHANGED << queue, done, nextId, ncorrupt >>

\* A submitter that waits for its bio before it submits the next one.
SubmitOne(dirs) ==
    /\ queue = << >>
    /\ active = {}
    /\ \E dir \in dirs : my_submit_bio(dir, TRUE)

\* Bit-rot strikes once.
CorruptOnce == ncorrupt = 0 /\ Corrupt

HandleSegmentObs == SegmentObs(Pages, AllShapes, NoFault)

\* The handler completes its bio; the observer keeps the count of pages.
CompleteObs == Complete /\ seg' = NoSeg(seg.npages)

\* Write bios only.
NextW ==
    \/ SubmitOne({"write"}) /\ UNCHANGED obs
    \/ StartWork /\ UNCHANGED obs
    \/ HandleSegmentObs /\ UNCHANGED mod
    \/ CompleteObs /\ UNCHANGED mod
    \/ CorruptOnce /\ UNCHANGED obs

SpecWrite == Init /\ [][NextW]_vars

\* Write bios of pages filled with one sector content, after a CRC slot
\* rotted.
UniformPages == {[j \in 0..(PAGE_SECTORS - 1) |-> b] : b \in Byte}

CorruptCrcOnce ==
    /\ ncorrupt = 0
    /\ active = {}
    /\ Events < MaxEvents
    /\ ncorrupt' = ncorrupt + 1
    /\ FlipCrc
    /\ UNCHANGED << queue, active, done, nextId, nextra, shadow, oob >>

NextFr ==
    \/ SubmitOne({"write"}) /\ UNCHANGED obs
    \/ StartWork /\ UNCHANGED obs
    \/ SegmentObs(UniformPages, AllShapes, NoFault) /\ UNCHANGED mod
    \/ CompleteObs /\ UNCHANGED mod
    \/ CorruptCrcOnce /\ UNCHANGED obs

SpecFrame == Init /\ [][NextFr]_vars

\* Read bios only.
NextR ==
    \/ SubmitOne({"read"}) /\ UNCHANGED obs
    \/ StartWork /\ UNCHANGED obs
    \/ HandleSegmentObs /\ UNCHANGED mod
    \/ CompleteObs /\ UNCHANGED mod
    \/ CorruptOnce /\ UNCHANGED obs

SpecRead == Init /\ [][NextR]_vars

\* ---- properties -----------------------------------------------------------
\* Device d holds a CRC slot for L that matches its data sector L (I1).
I1(dsk, d, L) == StoredCrc(dsk[d], L) = crc32(CRC_SEED, dsk[d][L])

\* Sectors a running bio has covered so far.
Range(c) == c.start..(c.sector - 1)
FinishedReads == {c \in active : c.fin /\ c.dir = "read"}

\* Sectors of Range(c) hold a payload written through the engine.
Written(c) == \A L \in Range(c) : shadow[L] /= NoData

\* The read returned, for every sector of its range, the payload last written.
ReturnsPayload(c) == ~c.err /\ \A L \in Range(c) : c.ret[L] = shadow[L]

\* C1: after any sequence of completed writes (no bit-rot, no handler
\* running), every written sector is identical on the two disks and its CRC
\* slot on each disk is the CRC of that disk's content.
C1_WritesMirrored ==
    (ncorrupt = 0 /\ active = {}) =>
        \A L \in Sectors :
            shadow[L] /= NoData =>
                /\ disk[0][L] = disk[1][L]
                /\ \A d \in Dev : I1(disk, d, L)

\* C2: a read of sectors that were written and not corrupted since succeeds
\* and returns the written payload.
C2_WriteReadRoundTrip ==
    \A c \in FinishedReads :
        (Written(c) /\ \A L \in Range(c) : rot[L] = {}) => ReturnsPayload(c)

\* C3: when only data sectors of the range were flipped since the write, all
\* on one disk d, the read returns the payload and leaves on d the payload
\* and its CRC.
C3_DataRotRepaired ==
    \A c \in FinishedReads : \A d \in Dev :
        ( /\ Written(c)
          /\ \A L \in Range(c) : rot[L] \subseteq {<< d, "data" >>}
          /\ \E L \in Range(c) : rot[L] /= {} )
        => /\ ReturnsPayload(c)
           /\ \A L \in Range(c) :
                /\ disk[d][L] = shadow[L]
                /\ StoredCrc(disk[d], L) = crc32(CRC_SEED, shadow[L])

\* C4: when only CRC slots of the range were flipped since the write, all on
\* one disk d, the read returns the payload and leaves in d's slots the CRC
\* of the payload.
C4_CrcRotRepaired ==
    \A c \in FinishedReads : \A d \in Dev :
        ( /\ Written(c)
          /\ \A L \in Range(c) : rot[L] \subseteq {<< d, "crc" >>}
          /\ \E L \in Range(c) : rot[L] /= {} )
        => /\ ReturnsPayload(c)
           /\ \A L \in Range(c) :
                StoredCrc(disk[d], L) = crc32(CRC_SEED, shadow[L])

\* C5: a read whose every sector had a disk satisfying I1 when the handler
\* started succeeds and leaves I1 satisfied by both disks on its range.
C5_ReadRestoresI1 ==
    \A c \in FinishedReads :
        (\A L \in Range(c) : \E d \in Dev : I1(c.pre, d, L))
        => /\ ~c.err
           /\ \A L \in Range(c) : \A d \in Dev : I1(disk, d, L)

\* C6: a read with a sector that was corrupt on both disks when the handler
\* started fails, and no write bio was issued while it was handled.
C6_BothBadNoWrite ==
    \A c \in FinishedReads :
        (\E L \in Range(c) : \A d \in Dev : ~I1(c.pre, d, L))
        => c.err /\ c.nwr = 0

\* C7: a bio during whose handling a disk bio failed completes with an
\* I/O error.
C7_IoFailureSurfaces ==
    \A k \in 1..Len(done) : done[k].iofail => done[k].status = "EIO"

\* C8: a bio whose work item could not be allocated completes with an error.
C8_AllocFailureIsError ==
    \A k \in 1..Len(done) : done[k].by = "submit" => done[k].status /= "OK"

\* Completion events delivered for bio id.
Completions(id) == {k \in 1..Len(done) : done[k].id = id}
Pending(id) ==
    \/ \E k \in 1..Len(queue) : queue[k].id = id
    \/ \E c \in active : c.id = id

\* C9: a submitted bio has no completion event while it is queued or
\* handled, and exactly one once the dispatcher or its handler is through.
C9_ExactlyOneCompletion ==
    \A id \in 1..(nextId - 1) :
        Cardinality(Completions(id)) = IF Pending(id) THEN 0 ELSE 1

\* All of C9's paths in one run: an allocation failure, a read that failed
\* as both-bad and a handler that succeeded.
C9_Witness ==
    /\ \E k \in 1..Len(done) : done[k].by = "submit"
    /\ \E k \in 1..Len(done) :
         done[k].by = "worker" /\ done[k].dir = "read" /\ done[k].status = "EIO"
    /\ \E k \in 1..Len(done) : done[k].by = "worker" /\ done[k].status = "OK"

\* C10 as claimed: completions are delivered in submission order.
C10_SubmissionOrder ==
    \A i, j \in 1..Len(done) : i < j => done[i].id < done[j].id

\* C10 (amended): the completions the worker delivers are in submission
\* order and the worker handles at most one bio at a time; a bio whose work
\* item could not be allocated is completed by the dispatcher at once.
C10_WorkerOrder ==
    /\ Cardinality(active) <= 1
    /\ \A i, j \in 1..Len(done) :
         (i < j /\ done[i].by = "worker" /\ done[j].by = "worker")
            => done[i].id < done[j].id
    /\ \A c \in active : \A k \in 1..Len(done) :
         done[k].by = "worker" => done[k].id < c.id

\* Three bios went through the worker, the last while others were queued
\* behind it before.
C10_Witness ==
    /\ Len(done) >= 2
    /\ \A k \in 1..Len(done) : done[k].by = "worker"
    /\ \E c \in active : c.id = Len(done) + 1


\* ---- module load and unload ---------------------------------------------------
\* mod.pc        : where ssr_init / ssr_exit stands
\* mod.registered: the major is registered (register_blkdev)
\* mod.gd        : the gendisk is added: bios can reach my_submit_bio
\* mod.pdsks[d]  : "null", "open", or "closed" (released by close_disk)
\* mod.wq        : queue is a workqueue (not NULL)
\* mod.early     : my_submit_bio ran while queue or a pdsks[d] was not set
\* mod.late      : a handler ran while a pdsks[d] was released
Engine == << disk, queue, active, done, nextId, ncorrupt, nextra, shadow, rot, oob >>

AllOpen == \A d \in Dev : mod.pdsks[d] = "open"

\* ssr.c:565-570, label remove_block_device, from the record m on.
remove_block_device(m) ==
    [m EXCEPT !.gd = FALSE, !.registered = FALSE, !.pc = "failed"]

\* ssr.c:561-563, label remove_disks, falling through.
remove_disks(m) ==
    remove_block_device([m EXCEPT !.pdsks = [d \in Dev |-> "closed"]])

\* ssr.c:538-540 register_blkdev; on failure ssr_init returns err.
register_blkdev(ok) ==
    /\ mod.pc = "unloaded"
    /\ mod' = IF ok THEN [mod EXCEPT !.registered = TRUE, !.pc = "registered"]
              ELSE [mod EXCEPT !.pc = "failed"]
    /\ UNCHANGED << Engine, seg >>

\* ssr.c:542 and 459-500 create_block_device: add_disk unless an
\* allocation failed; ssr_init drops the return value.
create_block_device(ok) ==
    /\ mod.pc = "registered"
    /\ mod' = [mod EXCEPT !.gd = ok, !.pc = "created"]
    /\ UNCHANGED << Engine, seg >>

\* ssr.c:545-551 open_disk of pdsks[d]; on failure goto remove_block_device.
open_disk(d, ok) ==
    /\ mod.pc = (IF d = 0 THEN "created" ELSE "open0")
    /\ mod' = IF ok
              THEN [mod EXCEPT !.pdsks[d] = "open",
                               !.pc = IF d = 0 THEN "open0" ELSE "open1"]
              ELSE remove_block_device(mod)
    /\ UNCHANGED << Engine, seg >>

\* ssr.c:554-559 create_singlethread_workqueue; on failure goto remove_disks.
create_singlethread_workqueue(ok) ==
    /\ mod.pc = "open1"
    /\ mod' = IF ok THEN [mod EXCEPT !.wq = TRUE, !.pc = "loaded"]
              ELSE remove_disks(mod)
    /\ UNCHANGED << Engine, seg >>

ssr_init ==
    \/ \E ok \in BOOLEAN : register_blkdev(ok)
    \/ \E ok \in BOOLEAN : create_block_device(ok)
    \/ \E d \in Dev, ok \in BOOLEAN : open_disk(d, ok)
    \/ \E ok \in BOOLEAN : create_singlethread_workqueue(ok)

\* ssr.c:575-576 close_disk(pdsks[0]); close_disk(pdsks[1]).
close_disk(d) ==
    /\ mod.pc = (IF d = 0 THEN "loaded" ELSE "exit0")
    /\ mod' = [mod EXCEPT !.pdsks[d] = "closed",
                          !.pc = IF d = 0 THEN "exit0" ELSE "exit1"]
    /\ UNCHANGED << Engine, seg >>

\* ssr.c:578 delete_block_device: del_gendisk.
delete_block_device ==
    /\ mod.pc = "exit1"
    /\ mod' = [mod EXCEPT !.gd = FALSE, !.pc = "exit2"]
    /\ UNCHANGED << Engine, seg >>

\* ssr.c:580 unregister_blkdev; ssr_exit returns and the module is gone.
\* The workqueue was neither flushed nor destroyed.
unregister_blkdev ==
    /\ mod.pc = "exit2"
    /\ mod' = [mod EXCEPT !.registered = FALSE, !.pc = "removed"]
    /\ UNCHANGED << Engine, seg >>

ssr_exit ==
    \/ \E d \in Dev : close_disk(d)
    \/ delete_block_device
    \/ unregister_blkdev

\* A bio reaches my_submit_bio as soon as the gendisk is added.  With queue
\* still NULL queue_work faults in the submitter: the bio is neither queued
\* nor completed.
SubmitL ==
    /\ mod.gd
    /\ IF mod.wq
       THEN /\ \E dir \in Dirs : my_submit_bio(dir, TRUE)
            /\ mod' = mod
       ELSE /\ Events < MaxEvents
            /\ nextId' = nextId + 1
            /\ mod' = [mod EXCEPT !.early = TRUE]
            /\ UNCHANGED << disk, queue, active, done, ncorrupt, nextra,
                            shadow, rot, oob >>
    /\ UNCHANGED seg

\* The worker, which exists from create_singlethread_workqueue on and as
\* long as the module's code does.
Working == mod.wq /\ mod.pc /= "removed"

ZeroPages == {[j \in 0..(PAGE_SECTORS - 1) |-> 0]}

\* A handler uses pdsks[]; a released one is used all the same.
HandleSegmentL ==
    /\ Working
    /\ Segment(ZeroPages, OneSector, NoFault)
    /\ mod' = [mod EXCEPT !.late = @ \/ ~AllOpen]
    /\ UNCHANGED seg

NextL ==
    \/ ssr_init
    \/ ssr_exit
    \/ SubmitL
    \/ Working /\ StartWorkD /\ UNCHANGED obs
    \/ HandleSegmentL
    \/ Working /\ Complete /\ UNCHANGED obs

\* Before insmod.
InitL == mod = NotLoaded /\ Fresh

SpecLife == InitL /\ [][NextL]_vars

\* ---- properties of one segment ----------------------------------------------
\* Logical sectors of the segment observed, and whether the observer holds
\* a write or a read segment.
SegRange == seg.sector..(seg.sector + seg.len - 1)
SegWrite == seg.dir = "write"
SegRead == seg.dir = "read"
\* The segment's sectors lie in two CRC sectors.
Straddles == get_crc_index(seg.sector) + seg.len > CRC_PER_SECTOR

\* C11: after a write segment, on both disks the CRC slot of each of its
\* sectors is the CRC of the bytes the segment persisted to that sector
\* (sector i of the segment comes from offset bv_offset + i of its page).
C11_CrcOfPersistedBytes ==
    SegWrite =>
        \A L \in SegRange, d \in Dev :
            StoredCrc(disk[d], L) =
                crc32(0, seg.page[seg.off + (L - seg.sector)])

\* C12: a write segment over a CRC-sector boundary writes the CRC sector of
\* each of its sectors on both disks, leaves there the CRC of what the
\* disk holds, and stores nothing outside crcs[].
C12_StraddleUpdatesBoth ==
    (SegWrite /\ Straddles) =>
        /\ ~seg.oob
        /\ \A L \in SegRange, d \in Dev :
             /\ << d, get_crc_sector(L) >> \in seg.wr
             /\ I1(disk, d, L)

\* C13: after a read segment every sector of the caller's page is either
\* what it was, or (inside the segment) the content of a disk whose CRC
\* slot matched it; a failed segment leaves the page as it was.
C13_CallerPageClean ==
    SegRead =>
        /\ seg.ret = "EIO" => seg.user = seg.page
        /\ \A j \in DOMAIN seg.page :
             \/ seg.user[j] = seg.page[j]
             \/ /\ j >= seg.off /\ j < seg.off + seg.len
                /\ \E d \in Dev :
                     /\ seg.user[j] = seg.pre[d][seg.sector + (j - seg.off)]
                     /\ I1(seg.pre, d, seg.sector + (j - seg.off))

\* C14: when a handler is about to complete its bio, and when no bio is in
\* flight, no page the engine allocated is outstanding.
C14_PagesReleased ==
    (\A c \in active : c.fin) => seg.npages = 0

Bad(d, L) == ~I1(seg.pre, d, L)

\* C19: a read segment changes on a disk only data sectors and CRC slots of
\* sectors of its range that failed verification there; a data sector it
\* writes receives the content of a disk that verified it; a disk on which
\* the whole range verified is not written.
C19_RepairFrame ==
    SegRead =>
        \A d \in Dev :
            /\ \A K \in Sectors :
                 (\/ disk[d][K] /= seg.pre[d][K]
                  \/ StoredCrc(disk[d], K) /= StoredCrc(seg.pre[d], K))
                    => (K \in SegRange /\ Bad(d, K))
            /\ \A L \in SegRange :
                 << d, L >> \in seg.wr =>
                    \E g \in Dev : ~Bad(g, L) /\ disk[d][L] = seg.pre[g][L]
            /\ (\A L \in SegRange : ~Bad(d, L)) =>
                    \A a \in seg.wr : a[1] /= d

\* C20: every sector a segment's disk bios cover lies inside the layout.
C20_AccessInsideLayout ==
    (SegRead \/ SegWrite) =>
        \A a \in seg.rd \cup seg.wr : a[2] >= 0 /\ a[2] < LAYOUT_SECTORS


\* ---- properties of load and unload -------------------------------------------
StartingUp == mod.pc \in {"registered", "created", "open0", "open1"}
ShuttingDown == mod.pc \in {"exit0", "exit1", "exit2", "removed"}

\* C15: once ssr_exit has closed a disk no work item is pending, and no
\* handler has run with a disk released.
C15_DrainBeforeClose ==
    /\ ~mod.late
    /\ ShuttingDown => (queue = << >> /\ active = {})

\* C16: while ssr_init runs the logical device is not published before both
\* disks are open and the workqueue exists, and no bio was dispatched
\* without them.
C16_PublishedLast ==
    /\ ~mod.early
    /\ (StartingUp /\ mod.gd) => (AllOpen /\ mod.wq)

\* C17: after a failed ssr_init no disk is open, the logical device is not
\* published and the major is not registered; an ssr_init that returned 0
\* has published the logical device.
C17_FailedInitUndone ==
    /\ mod.pc = "failed" =>
        /\ \A d \in Dev : mod.pdsks[d] /= "open"
        /\ ~mod.gd
        /\ ~mod.registered
    /\ mod.pc = "loaded" => mod.gd

=============================================================================
